---- MODULE Spec2Model ----
(***************************************************************************)
(* Model of the answer-grading gateway of src/main.py: the two grading     *)
(* endpoints check_answer and check_preposition, the speech helper         *)
(* text_to_speech_openai, and the reply parsing both endpoints perform.    *)
(*                                                                         *)
(* Text is a sequence of tokens.  Every token that matters to a parser or  *)
(* a regular expression of the source (quote, backslash, braces, colon,    *)
(* newline, space, the code fence) is a token of its own; the remaining    *)
(* tokens are words made of letters, digits and underscores only.          *)
(* Python values are records [t, s, m]: t the type, s the text of a        *)
(* string or the digits of a number, m the members of a list or dict.      *)
(***************************************************************************)
EXTENDS Integers, Sequences, FiniteSets, TLC

\* ------------------------------------------------------------------ tokens
DQ == "\""
SQ == "'"
BS == "\\"
NL == "\n"
SP == " "
\* the three backquotes of a markdown code fence (a backquote cannot be
\* written in a string of this language)
FENCE == "<fence>"
LBRACE == "{"
RBRACE == "}"
LBRACK == "["
RBRACK == "]"
COLON == ":"
COMMA == ","

\* str.strip() and the regular expression class \s
PyWhitespace == {SP, NL}

\* whitespace json.loads skips between tokens
JsonWs == {SP, NL}

\* the digits of the vocabulary
Digits == {"0", "5", "7"}

\* ------------------------------------------------------------ Python values
PyNone == [t |-> "null", s |-> <<>>, m |-> <<>>]

PyStr(toks) == [t |-> "str", s |-> toks, m |-> <<>>]

PyNum(digs) == [t |-> "num", s |-> digs, m |-> <<>>]

PyList(mem) == [t |-> "list", s |-> <<>>, m |-> mem]

PyDict(mem) == [t |-> "dict", s |-> <<>>, m |-> mem]

\* a member of a dict (key k) or an element of a list (k is empty)
Member(k, v) == [k |-> k, v |-> v]

EmptyStr == PyStr(<<>>)

\* Python truth value, as `not x` and `if x` use it
Truthy(v) ==
  CASE v.t = "null" -> FALSE
    [] v.t = "str"  -> Len(v.s) > 0
    [] v.t = "num"  -> v.s # <<"0">>
    [] OTHER        -> Len(v.m) > 0

\* dict.get(key, default): the last member with that key wins
RECURSIVE DictGetFrom(_, _, _, _)
DictGetFrom(mem, i, key, default) ==
  IF i = 0 THEN default
  ELSE IF mem[i].k = key THEN mem[i].v
  ELSE DictGetFrom(mem, i - 1, key, default)

DictGet(d, key, default) == DictGetFrom(d.m, Len(d.m), key, default)

\* ------------------------------------------------------------- json.loads
ParseFail == [ok |-> FALSE, v |-> PyNone, p |-> 0]

ParseOk(v, p) == [ok |-> TRUE, v |-> v, p |-> p]

RECURSIVE SkipWs(_, _)
SkipWs(t, p) ==
  IF p <= Len(t) /\ t[p] \in JsonWs THEN SkipWs(t, p + 1) ELSE p

\* the body of a JSON string, p just after the opening quote
RECURSIVE ScanString(_, _, _)
ScanString(t, p, acc) ==
  IF p > Len(t) THEN ParseFail
  ELSE IF t[p] = DQ THEN ParseOk(PyStr(acc), p + 1)
  ELSE IF t[p] = BS THEN
    IF p + 1 <= Len(t) /\ t[p + 1] \in {DQ, BS}
    THEN ScanString(t, p + 2, Append(acc, t[p + 1]))
    ELSE IF p + 1 <= Len(t) /\ t[p + 1] = "n"
    THEN ScanString(t, p + 2, Append(acc, NL))
    ELSE ParseFail
  ELSE IF t[p] = NL THEN ParseFail
  ELSE ScanString(t, p + 1, Append(acc, t[p]))

RECURSIVE DigitRun(_, _)
DigitRun(t, p) ==
  IF p <= Len(t) /\ t[p] \in Digits THEN DigitRun(t, p + 1) ELSE p

\* a JSON integer: optional minus, then 0 or a run of digits not starting
\* with 0; "-0" is the integer 0
ScanNumber(t, p) ==
  LET neg == t[p] = "-"
      d   == IF neg THEN p + 1 ELSE p
  IN  IF d > Len(t) \/ t[d] \notin Digits THEN ParseFail
      ELSE LET e    == IF t[d] = "0" THEN d + 1 ELSE DigitRun(t, d)
               digs == SubSeq(t, d, e - 1)
           IN  ParseOk(PyNum(IF neg /\ digs # <<"0">>
                             THEN <<"-">> \o digs ELSE digs), e)

RECURSIVE ParseValue(_, _)
RECURSIVE ParseElems(_, _, _)
RECURSIVE ParseMembers(_, _, _)

\* elements of a list, p at the first token of an element
ParseElems(t, p, acc) ==
  LET r == ParseValue(t, p)
  IN  IF ~r.ok THEN ParseFail
      ELSE LET q == SkipWs(t, r.p)
               a == Append(acc, Member(<<>>, r.v))
           IN  IF q > Len(t) THEN ParseFail
               ELSE IF t[q] = RBRACK THEN ParseOk(PyList(a), q + 1)
               ELSE IF t[q] = COMMA THEN ParseElems(t, SkipWs(t, q + 1), a)
               ELSE ParseFail

\* members of an object, p at the opening quote of a key
ParseMembers(t, p, acc) ==
  IF p > Len(t) \/ t[p] # DQ THEN ParseFail
  ELSE
    LET k == ScanString(t, p + 1, <<>>)
    IN  IF ~k.ok THEN ParseFail
        ELSE
          LET c == SkipWs(t, k.p)
          IN  IF c > Len(t) \/ t[c] # COLON THEN ParseFail
              ELSE
                LET r == ParseValue(t, SkipWs(t, c + 1))
                IN  IF ~r.ok THEN ParseFail
                    ELSE
                      LET q == SkipWs(t, r.p)
                          a == Append(acc, Member(k.v.s, r.v))
                      IN  IF q > Len(t) THEN ParseFail
                          ELSE IF t[q] = RBRACE THEN ParseOk(PyDict(a), q + 1)
                          ELSE IF t[q] = COMMA
                            THEN ParseMembers(t, SkipWs(t, q + 1), a)
                          ELSE ParseFail

ParseValue(t, p) ==
  IF p > Len(t) THEN ParseFail
  ELSE IF t[p] = DQ THEN ScanString(t, p + 1, <<>>)
  ELSE IF t[p] = "null" THEN ParseOk(PyNone, p + 1)
  ELSE IF t[p] \in Digits \cup {"-"} THEN ScanNumber(t, p)
  ELSE IF t[p] = LBRACK THEN
    LET q == SkipWs(t, p + 1)
    IN  IF q <= Len(t) /\ t[q] = RBRACK THEN ParseOk(PyList(<<>>), q + 1)
        ELSE ParseElems(t, q, <<>>)
  ELSE IF t[p] = LBRACE THEN
    LET q == SkipWs(t, p + 1)
    IN  IF q <= Len(t) /\ t[q] = RBRACE THEN ParseOk(PyDict(<<>>), q + 1)
        ELSE ParseMembers(t, q, <<>>)
  ELSE ParseFail

\* json.loads(text): ok = FALSE stands for json.JSONDecodeError
json_loads(t) ==
  LET r == ParseValue(t, SkipWs(t, 1))
  IN  IF r.ok /\ SkipWs(t, r.p) = Len(t) + 1 THEN r ELSE ParseFail

\* ------------------------------------------------------- str() and repr()
RECURSIVE JoinMembers(_, _, _)
JoinMembers(parts, i, sep) ==
  IF i > Len(parts) THEN <<>>
  ELSE IF i = Len(parts) THEN parts[i]
  ELSE parts[i] \o sep \o JoinMembers(parts, i + 1, sep)

\* repr() of a str: single quotes unless the text holds a single quote and
\* no double quote; a backslash is doubled
PyReprStr(toks) ==
  LET q   == IF (\E i \in 1..Len(toks) : toks[i] = SQ)
                /\ ~(\E i \in 1..Len(toks) : toks[i] = DQ)
             THEN DQ ELSE SQ
      esc == [i \in 1..Len(toks) |->
                IF toks[i] = BS THEN <<BS, BS>>
                ELSE IF toks[i] = q THEN <<BS, q>>
                ELSE IF toks[i] = NL THEN <<BS, "n">>
                ELSE <<toks[i]>>]
  IN  <<q>> \o JoinMembers(esc, 1, <<>>) \o <<q>>

RECURSIVE PyRepr(_)
PyRepr(v) ==
  CASE v.t = "null" -> <<"None">>
    [] v.t = "str"  -> PyReprStr(v.s)
    [] v.t = "num"  -> v.s
    [] v.t = "list" ->
         <<LBRACK>>
         \o JoinMembers([i \in 1..Len(v.m) |-> PyRepr(v.m[i].v)], 1,
                        <<COMMA, SP>>)
         \o <<RBRACK>>
    [] OTHER ->
         <<LBRACE>>
         \o JoinMembers([i \in 1..Len(v.m) |->
                           PyReprStr(v.m[i].k) \o <<COLON, SP>>
                           \o PyRepr(v.m[i].v)], 1, <<COMMA, SP>>)
         \o <<RBRACE>>

\* str(v), which is also what an f-string puts in place of {v}
PyToStr(v) == IF v.t = "str" THEN v.s ELSE PyRepr(v)

\* ------------------------------------------------------------- str.strip()
RECURSIVE LStrip(_)
LStrip(toks) ==
  IF Len(toks) > 0 /\ toks[1] \in PyWhitespace THEN LStrip(Tail(toks))
  ELSE toks

RECURSIVE RStrip(_)
RStrip(toks) ==
  IF Len(toks) > 0 /\ toks[Len(toks)] \in PyWhitespace
  THEN RStrip(SubSeq(toks, 1, Len(toks) - 1))
  ELSE toks

Strip(toks) == LStrip(RStrip(toks))

\* ------------------------------------------ the text both endpoints build
\* f". Next question: {next_question}" up to the value
NextQuestionSep == <<".", SP, "Next", SP, "question", COLON, SP>>

\* -------------------------------------------- check_answer: reply to text
\* Outcome of the statements that turn the reply text into feedback,
\* next_question and combined_text; raised = TRUE is an exception that
\* leaves the inner try block (AttributeError, TypeError).
Raised(name) ==
  [raised |-> TRUE, exc |-> name, feedback |-> PyNone,
   next_question |-> PyNone, combined_text |-> PyNone]

Parsed(fb, nq, ct) ==
  [raised |-> FALSE, exc |-> "", feedback |-> fb, next_question |-> nq,
   combined_text |-> ct]

\* combined_text = feedback; if next_question: combined_text += f"..."
AnswerCombine(fb, nq) ==
  IF ~Truthy(nq) THEN Parsed(fb, nq, fb)
  ELSE
    LET suffix == NextQuestionSep \o PyToStr(nq)
    IN  CASE fb.t = "str"  -> Parsed(fb, nq, PyStr(fb.s \o suffix))
          [] fb.t = "list" ->
               \* list += str extends the list in place, one element per
               \* piece of the string; feedback is the same list object
               LET ext == PyList(fb.m \o [i \in 1..Len(suffix) |->
                                           Member(<<>>, PyStr(<<suffix[i]>>))])
               IN  Parsed(ext, nq, ext)
          [] OTHER -> Raised("TypeError")

AnswerParse(text) ==
  LET r == json_loads(text)
  IN  IF ~r.ok THEN AnswerCombine(PyStr(text), EmptyStr)
      ELSE IF r.v.t # "dict" THEN Raised("AttributeError")
      ELSE AnswerCombine(DictGet(r.v, <<"feedback">>, EmptyStr),
                         DictGet(r.v, <<"next_question">>, EmptyStr))

\* --------------------------------------- check_preposition: reply to text
\* tokens that are not made of the characters [a-zA-Z0-9_-] only
NonWordTokens ==
  {DQ, SQ, BS, NL, SP, FENCE, LBRACE, RBRACE, LBRACK, RBRACK, COLON, COMMA,
   ".", "=", "!"}

RECURSIVE WordRun(_, _)
WordRun(c, p) ==
  IF p <= Len(c) /\ c[p] \notin NonWordTokens THEN WordRun(c, p + 1) ELSE p

\* re.sub(r'^```[a-zA-Z0-9_\-]*\n', '', cleaned)
StripOpeningFence(c) ==
  IF Len(c) = 0 \/ c[1] # FENCE THEN c
  ELSE LET j == WordRun(c, 2)
       IN  IF j <= Len(c) /\ c[j] = NL THEN SubSeq(c, j + 1, Len(c)) ELSE c

\* re.sub(r'\n```\s*$', '', cleaned)
StripClosingFence(c) ==
  LET r == RStrip(c)
  IN  IF Len(r) >= 2 /\ r[Len(r)] = FENCE /\ r[Len(r) - 1] = NL
      THEN SubSeq(c, 1, Len(r) - 2)
      ELSE c

\* cleaned = text.strip(); if cleaned.startswith('```'): two re.sub
CleanReply(text) ==
  LET c == Strip(text)
  IN  IF Len(c) > 0 /\ c[1] = FENCE
      THEN StripClosingFence(StripOpeningFence(c))
      ELSE c

NoMatch == [ok |-> FALSE, g |-> <<>>]

\* re.search(r'\{[\s\S]*\}', cleaned): from the first "{" to the last "}"
BraceSearch(c) ==
  LET opens  == {i \in 1..Len(c) : c[i] = LBRACE}
  IN  IF opens = {} THEN NoMatch
      ELSE
        LET i      == CHOOSE x \in opens : \A y \in opens : x <= y
            closes == {j \in (i + 1)..Len(c) : c[j] = RBRACE}
        IN  IF closes = {} THEN NoMatch
            ELSE LET j == CHOOSE x \in closes : \A y \in closes : y <= x
                 IN  [ok |-> TRUE, g |-> SubSeq(c, i, j)]

RECURSIVE WsRun(_, _)
WsRun(c, p) ==
  IF p <= Len(c) /\ c[p] \in PyWhitespace THEN WsRun(c, p + 1) ELSE p

\* the run [^\n"]+ starting at p: the index after its last token
RECURSIVE ValueRun(_, _)
ValueRun(c, p) ==
  IF p <= Len(c) /\ c[p] \notin {NL, DQ} THEN ValueRun(c, p + 1) ELSE p

\* \s*"?([^\n"]+)"? after the separator: \s* has taken the tokens before j
\* and gives them back one by one (down to lo) while the rest cannot match
RECURSIVE ValueAfterSep(_, _, _)
ValueAfterSep(c, j, lo) ==
  LET start == IF j <= Len(c) /\ c[j] = DQ THEN j + 1 ELSE j
      stop  == ValueRun(c, start)
  IN  IF stop > start THEN [ok |-> TRUE, g |-> SubSeq(c, start, stop - 1)]
      ELSE IF j > lo THEN ValueAfterSep(c, j - 1, lo)
      ELSE NoMatch

\* key\s*[:=-]\s*"?([^\n"]+)"? with the key ending just before p
KeyLineAt(c, p) ==
  LET q == WsRun(c, p)
  IN  IF q > Len(c) \/ c[q] \notin {COLON, "=", "-"} THEN NoMatch
      ELSE ValueAfterSep(c, WsRun(c, q + 1), q + 1)

\* re.search of a key-line pattern: the leftmost key that matches
RECURSIVE KeyLineSearch(_, _, _)
KeyLineSearch(c, i, keys) ==
  IF i > Len(c) THEN NoMatch
  ELSE IF c[i] \in keys /\ KeyLineAt(c, i + 1).ok THEN KeyLineAt(c, i + 1)
  ELSE KeyLineSearch(c, i + 1, keys)

\* spellings r'feedback' matches under re.IGNORECASE
FeedbackKeys == {"feedback", "Feedback", "FEEDBACK"}

\* spellings r'next_?question' matches under re.IGNORECASE
NextQuestionKeys == {"next_question", "nextquestion", "Next_Question"}

\* the try / except cascade: feedback and next_question before _sanitize
PrepositionCascade(cleaned) ==
  LET r == json_loads(cleaned)
  IN  IF r.ok /\ r.v.t = "dict"
      THEN [feedback |-> PyToStr(DictGet(r.v, <<"feedback">>, EmptyStr)),
            next_question |->
              PyToStr(DictGet(r.v, <<"next_question">>, EmptyStr))]
      ELSE
        LET m == BraceSearch(cleaned)
        IN  IF m.ok THEN
              LET r2 == json_loads(m.g)
              IN  IF r2.ok /\ r2.v.t = "dict"
                  THEN [feedback |->
                          PyToStr(DictGet(r2.v, <<"feedback">>, EmptyStr)),
                        next_question |->
                          PyToStr(DictGet(r2.v, <<"next_question">>,
                                          EmptyStr))]
                  ELSE [feedback |-> cleaned, next_question |-> <<>>]
            ELSE
              LET fb == KeyLineSearch(cleaned, 1, FeedbackKeys)
                  nq == KeyLineSearch(cleaned, 1, NextQuestionKeys)
                  f  == IF fb.ok THEN fb.g ELSE <<>>
                  n  == IF nq.ok THEN nq.g ELSE <<>>
              IN  IF f = <<>> /\ n = <<>>
                  THEN [feedback |-> cleaned, next_question |-> <<>>]
                  ELSE [feedback |-> f, next_question |-> n]

\* _sanitize(s)
Sanitize(toks) ==
  LET t == Strip(toks)
  IN  IF Len(t) > 0 /\ ((t[1] = DQ /\ t[Len(t)] = DQ)
                        \/ (t[1] = SQ /\ t[Len(t)] = SQ))
      THEN SubSeq(t, 2, Len(t) - 1)
      ELSE t

PrepositionParse(text) ==
  LET c  == PrepositionCascade(CleanReply(text))
      fb == Sanitize(c.feedback)
      nq == Sanitize(c.next_question)
  IN  Parsed(PyStr(fb), PyStr(nq),
             PyStr(fb \o (IF Len(nq) > 0 THEN NextQuestionSep \o nq
                          ELSE <<>>)))

\* ------------------------------------------------- text_to_speech_openai
B64Alphabet ==
  <<"A", "B", "C", "D", "E", "F", "G", "H", "I", "J", "K", "L", "M", "N", "O",
    "P", "Q", "R", "S", "T", "U", "V", "W", "X", "Y", "Z", "a", "b", "c", "d",
    "e", "f", "g", "h", "i", "j", "k", "l", "m", "n", "o", "p", "q", "r", "s",
    "t", "u", "v", "w", "x", "y", "z", "0", "1", "2", "3", "4", "5", "6", "7",
    "8", "9", "+", "/">>

B64Char(n) == B64Alphabet[n + 1]

\* base64.b64encode(content).decode("utf-8")
RECURSIVE b64encode(_)
b64encode(bytes) ==
  IF Len(bytes) = 0 THEN <<>>
  ELSE IF Len(bytes) = 1 THEN
    <<B64Char(bytes[1] \div 4), B64Char((bytes[1] % 4) * 16), "=", "=">>
  ELSE IF Len(bytes) = 2 THEN
    <<B64Char(bytes[1] \div 4),
      B64Char((bytes[1] % 4) * 16 + bytes[2] \div 16),
      B64Char((bytes[2] % 16) * 4), "=">>
  ELSE
    <<B64Char(bytes[1] \div 4),
      B64Char((bytes[1] % 4) * 16 + bytes[2] \div 16),
      B64Char((bytes[2] % 16) * 4 + bytes[3] \div 64),
      B64Char(bytes[3] % 64)>>
    \o b64encode(SubSeq(bytes, 4, Len(bytes)))

HTTP_OK == 200

\* What the speech service does with one request: it answers with a status
\* and a body, or requests.post raises (timeout, connection error).
SpeechAnswer(st, content) == [raises |-> FALSE, status |-> st, content |-> content]

SpeechFailure == [raises |-> TRUE, status |-> 0, content |-> <<>>]

\* text_to_speech_openai without the check of the status (line 69)
text_to_speech_openai_NoStatusCheck(openaiKey, answer) ==
  IF ~Truthy(openaiKey) THEN [raised |-> TRUE, audio |-> PyNone]
  ELSE IF answer.raises THEN [raised |-> TRUE, audio |-> PyNone]
  ELSE [raised |-> FALSE, audio |-> PyStr(b64encode(answer.content))]

\* text_to_speech_openai given the service's answer: raised = TRUE is one of
\* its RuntimeErrors or the exception of requests.post; without a key it
\* raises before it posts anything
text_to_speech_openai(openaiKey, answer) ==
  IF ~Truthy(openaiKey) THEN [raised |-> TRUE, audio |-> PyNone]
  ELSE IF answer.raises THEN [raised |-> TRUE, audio |-> PyNone]
  ELSE IF answer.status # HTTP_OK THEN [raised |-> TRUE, audio |-> PyNone]
  ELSE [raised |-> FALSE, audio |-> PyStr(b64encode(answer.content))]

\* ------------------------------------------------------- HTTP responses
SERVICE_UNAVAILABLE == 503

BAD_REQUEST == 400

INTERNAL_ERROR == 500

NoResponse ==
  [keys |-> {}, error |-> PyNone, details |-> PyNone, text |-> PyNone,
   next_question |-> PyNone, combined_text |-> PyNone,
   audio_base64 |-> PyNone]

\* jsonify({'error': e})
ErrorBody(e) == [NoResponse EXCEPT !.keys = {"error"}, !.error = PyStr(e)]

\* jsonify({'error': e, 'details': d})
ErrorDetails(e, d) ==
  [NoResponse EXCEPT !.keys = {"error", "details"}, !.error = PyStr(e),
                     !.details = PyStr(d)]

\* jsonify({'text': ..., 'next_question': ..., 'combined_text': ...,
\*          'audio_base64': ...})
ResultBody(fb, nq, ct, audio) ==
  [NoResponse EXCEPT
     !.keys = {"text", "next_question", "combined_text", "audio_base64"},
     !.text = fb, !.next_question = nq, !.combined_text = ct,
     !.audio_base64 = audio]

\* what a handler does next: answer the client, or call a service
Respond(st, body) == [kind |-> "respond", status |-> st, body |-> body,
                      prompt |-> <<>>]

CallGrading(prompt) == [kind |-> "call", status |-> 0, body |-> NoResponse,
                        prompt |-> prompt]

\* ---------------------------------------------------- request.get_json()
\* A request body is JSON (v is its value), is not valid JSON ("malformed"),
\* or is not sent as JSON at all ("nojson").  Flask raises an HTTPException
\* for a malformed body; for a body that is not JSON it returns None or
\* raises, depending on the Flask release (raises415 chooses).
JsonBody(v) == [kind |-> "json", v |-> v]

NoJsonBody == [kind |-> "nojson", v |-> PyNone]

MalformedBody == [kind |-> "malformed", v |-> PyNone]

get_json(req, raises415) ==
  CASE req.kind = "json"      -> [raised |-> FALSE, v |-> req.v]
    [] req.kind = "malformed" -> [raised |-> TRUE, v |-> PyNone]
    [] OTHER                  -> [raised |-> raises415, v |-> PyNone]

\* --------------------------------------- the handlers up to the grading call
\* check_answer, lines 122-209
CheckAnswerBegin(claudeKey, openaiKey, req, raises415) ==
  IF ~Truthy(claudeKey) THEN
    Respond(SERVICE_UNAVAILABLE,
            ErrorDetails(<<"Service not configured">>,
                         <<"Claude API key not found">>))
  ELSE IF ~Truthy(openaiKey) THEN
    Respond(SERVICE_UNAVAILABLE,
            ErrorDetails(<<"Service not configured">>,
                         <<"OpenAI API key not found">>))
  ELSE
    LET j == get_json(req, raises415)
    IN  IF j.raised THEN
          Respond(INTERNAL_ERROR,
                  ErrorDetails(<<"Internal server error">>, <<"HTTPException">>))
        ELSE IF Truthy(j.v) /\ j.v.t # "dict" THEN
          \* data.keys() of the log line
          Respond(INTERNAL_ERROR,
                  ErrorDetails(<<"Internal server error">>, <<"AttributeError">>))
        ELSE IF ~Truthy(j.v) THEN
          Respond(BAD_REQUEST, ErrorBody(<<"No JSON data provided">>))
        ELSE
          LET question    == DictGet(j.v, <<"question">>, PyNone)
              user_answer == DictGet(j.v, <<"user_answer">>, PyNone)
          IN  IF ~Truthy(question) \/ ~Truthy(user_answer) THEN
                Respond(BAD_REQUEST,
                        ErrorBody(<<"Both question and user_answer are required">>))
              ELSE
                CallGrading(<<"tense">> \o PyToStr(question)
                            \o <<"|">> \o PyToStr(user_answer))

\* the test of line 286 with the speech credential left out
ServiceNotConfigured_GradingKeyOnly(claudeKey, openaiKey) == ~Truthy(claudeKey)

\* the test of line 286 with the grading credential left out
ServiceNotConfigured_SpeechKeyOnly(claudeKey, openaiKey) == ~Truthy(openaiKey)

\* not CLAUDE_API_KEY or not OPENAI_API_KEY (line 286)
ServiceNotConfigured(claudeKey, openaiKey) ==
  ~Truthy(claudeKey) \/ ~Truthy(openaiKey)

\* check_preposition, lines 285-322
CheckPrepositionBegin(claudeKey, openaiKey, req, raises415) ==
  IF ServiceNotConfigured(claudeKey, openaiKey) THEN
    Respond(SERVICE_UNAVAILABLE, ErrorBody(<<"Service not configured">>))
  ELSE
    LET j == get_json(req, raises415)
    IN  IF j.raised THEN
          Respond(INTERNAL_ERROR,
                  ErrorDetails(<<"Internal server error">>, <<"HTTPException">>))
        ELSE
          LET data == IF Truthy(j.v) THEN j.v ELSE PyDict(<<>>)
          IN  IF data.t # "dict" THEN
                Respond(INTERNAL_ERROR,
                        ErrorDetails(<<"Internal server error">>,
                                     <<"AttributeError">>))
              ELSE
                LET question    == DictGet(data, <<"question">>, PyNone)
                    user_answer == DictGet(data, <<"user_answer">>, PyNone)
                    np          == DictGet(data, <<"next_preposition">>, PyNone)
                    hint        == IF Truthy(np) THEN np ELSE EmptyStr
                IN  IF hint.t # "str" THEN
                      \* .strip() of a value that is not a string
                      Respond(INTERNAL_ERROR,
                              ErrorDetails(<<"Internal server error">>,
                                           <<"AttributeError">>))
                    ELSE IF ~Truthy(question) \/ ~Truthy(user_answer) THEN
                      Respond(BAD_REQUEST,
                              ErrorBody(<<"Both question and user_answer are required">>))
                    ELSE
                      CallGrading(<<"preposition">> \o PyToStr(question)
                                  \o <<"|">> \o PyToStr(user_answer)
                                  \o <<"|">>
                                  \o (IF Len(Strip(hint.s)) > 0
                                      THEN Strip(hint.s)
                                      ELSE <<"[choose a different one than current]">>))

\* --------------------------------------------- the grading service's answer
\* The grading service answers one request with a status and a body, or
\* requests.post raises (timeout, connection error).
GradingAnswer(st, body) == [raises |-> FALSE, status |-> st, body |-> body]

GradingFailure == [raises |-> TRUE, status |-> 0, body |-> <<>>]

\* a JSON string literal for a text, as the grading service writes it
JsonEscape(toks) ==
  JoinMembers([i \in 1..Len(toks) |->
                 IF toks[i] \in {DQ, BS} THEN <<BS, toks[i]>>
                 ELSE IF toks[i] = NL THEN <<BS, "n">>
                 ELSE <<toks[i]>>], 1, <<>>)

\* the body of a successful answer of the messages API that carries `text`
Envelope(text) ==
  <<LBRACE, DQ, "content", DQ, COLON, LBRACK, LBRACE, DQ, "type", DQ, COLON,
    DQ, "text", DQ, COMMA, DQ, "text", DQ, COLON, DQ>>
  \o JsonEscape(text) \o <<DQ, RBRACE, RBRACK, RBRACE>>

\* response.json() and the extraction of the reply text (lines 223-231 and
\* 326-331): raised = TRUE is an exception, otherwise text is response_text
\* (None when the answer has no usable content)
ExtractText(body) ==
  LET r == json_loads(body)
  IN  IF ~r.ok THEN [raised |-> TRUE, exc |-> "JSONDecodeError", text |-> PyNone]
      ELSE IF r.v.t \in {"null", "num"}
        THEN [raised |-> TRUE, exc |-> "TypeError", text |-> PyNone]
      ELSE IF r.v.t = "str" THEN
        \* 'content' in a str is a substring test, then indexing raises
        IF \E i \in 1..Len(r.v.s) : r.v.s[i] = "content"
        THEN [raised |-> TRUE, exc |-> "TypeError", text |-> PyNone]
        ELSE [raised |-> FALSE, exc |-> "", text |-> PyNone]
      ELSE IF r.v.t = "list" THEN
        IF \E i \in 1..Len(r.v.m) : r.v.m[i].v = PyStr(<<"content">>)
        THEN [raised |-> TRUE, exc |-> "TypeError", text |-> PyNone]
        ELSE [raised |-> FALSE, exc |-> "", text |-> PyNone]
      ELSE
        LET content == DictGet(r.v, <<"content">>, PyNone)
            present == \E i \in 1..Len(r.v.m) : r.v.m[i].k = <<"content">>
        IN  IF ~present \/ content.t # "list" \/ Len(content.m) = 0
            THEN [raised |-> FALSE, exc |-> "", text |-> PyNone]
            ELSE IF content.m[1].v.t # "dict"
            THEN [raised |-> TRUE, exc |-> "AttributeError", text |-> PyNone]
            ELSE [raised |-> FALSE, exc |-> "",
                  text |-> DictGet(content.m[1].v, <<"text">>, PyNone)]

\* what a handler does after the grading service answered
CallSpeech(text, parsed) ==
  [kind |-> "speech", status |-> 0, body |-> NoResponse, text |-> text,
   parsed |-> parsed]

Finish(st, body, text) ==
  [kind |-> "respond", status |-> st, body |-> body, text |-> text,
   parsed |-> Raised("")]

\* lines 217-220 answering with a fixed status instead of the upstream one
CheckAnswerUpstreamError_FixedStatus(answer) ==
  Finish(INTERNAL_ERROR,
         ErrorDetails(<<"Claude API error: ", ToString(answer.status)>>,
                      answer.body), PyNone)

\* check_answer, lines 213-220: the grading service's error is passed on
CheckAnswerUpstreamError(answer) ==
  Finish(answer.status,
         ErrorDetails(<<"Claude API error: ", ToString(answer.status)>>,
                      answer.body), PyNone)

\* check_answer, lines 209-257 and the except clauses of lines 268-280
CheckAnswerGraded(answer) ==
  IF answer.raises THEN
    Finish(INTERNAL_ERROR,
           ErrorDetails(<<"Request failed">>, <<"RequestException">>), PyNone)
  ELSE IF answer.status # HTTP_OK THEN CheckAnswerUpstreamError(answer)
  ELSE
    LET x == ExtractText(answer.body)
    IN  IF x.raised THEN
          Finish(INTERNAL_ERROR,
                 IF x.exc = "JSONDecodeError"
                 THEN ErrorDetails(<<"Request failed">>, <<x.exc>>)
                 ELSE ErrorDetails(<<"Internal server error">>, <<x.exc>>),
                 PyNone)
        ELSE IF ~Truthy(x.text) THEN
          Finish(INTERNAL_ERROR, ErrorBody(<<"No response text from Claude">>),
                 x.text)
        ELSE IF x.text.t # "str" THEN
          \* json.loads of a value that is not text
          Finish(INTERNAL_ERROR,
                 ErrorDetails(<<"Internal server error">>, <<"TypeError">>),
                 x.text)
        ELSE
          LET parsed == AnswerParse(x.text.s)
          IN  IF parsed.raised THEN
                Finish(INTERNAL_ERROR,
                       ErrorDetails(<<"Internal server error">>, <<parsed.exc>>),
                       x.text)
              ELSE CallSpeech(x.text, parsed)

\* check_preposition, lines 322-376 and the except clause of lines 386-387
CheckPrepositionGraded(answer) ==
  IF answer.raises THEN
    Finish(INTERNAL_ERROR,
           ErrorDetails(<<"Internal server error">>, <<"RequestException">>),
           PyNone)
  ELSE IF answer.status # HTTP_OK THEN
    Finish(answer.status, ErrorDetails(<<"Claude API error">>, answer.body),
           PyNone)
  ELSE
    LET x == ExtractText(answer.body)
    IN  IF x.raised THEN
          Finish(INTERNAL_ERROR,
                 ErrorDetails(<<"Internal server error">>, <<x.exc>>), PyNone)
        ELSE IF ~Truthy(x.text) THEN
          Finish(INTERNAL_ERROR, ErrorBody(<<"No response text from Claude">>),
                 x.text)
        ELSE IF x.text.t # "str" THEN
          \* .strip() of a value that is not text
          Finish(INTERNAL_ERROR,
                 ErrorDetails(<<"Internal server error">>, <<"AttributeError">>),
                 x.text)
        ELSE CallSpeech(x.text, PrepositionParse(x.text.s))

\* ------------------------------------------------------------------ inputs
\* requests served in one run
MaxRequests == 2

\* length of the audio the speech service returns
MaxAudioLen == 2

AudioBytes == {0, 255}

AudioContents == UNION {[1..n -> AudioBytes] : n \in 0..MaxAudioLen}

\* values an environment variable can have: unset, empty, set
KeyValues == {PyNone, EmptyStr, PyStr(<<"sk-key">>)}

\* a JSON object text with the given member texts; <<>> leaves a member out
ObjectText(fb, nq) ==
  LET f == IF fb = <<>> THEN <<>>
           ELSE <<<<DQ, "feedback", DQ, COLON, SP>> \o fb>>
      n == IF nq = <<>> THEN <<>>
           ELSE <<<<DQ, "next_question", DQ, COLON, SP>> \o nq>>
  IN  <<LBRACE>> \o JoinMembers(f \o n, 1, <<COMMA, SP>>) \o <<RBRACE>>

FeedbackTexts ==
  {<<>>, <<DQ, DQ>>, <<DQ, "Good", SP, "job", "!", DQ>>,
   <<DQ, SQ, "OK", SQ, DQ>>, <<"5">>, <<"null">>, <<LBRACK, "5", RBRACK>>}

NextQuestionTexts ==
  {<<>>, <<DQ, DQ>>, <<DQ, "Use", SP, BS, DQ, "travel", BS, DQ, DQ>>,
   <<"0">>, <<"7">>, <<"null">>}

ObjectReplies ==
  {ObjectText(fb, nq) : fb \in FeedbackTexts, nq \in NextQuestionTexts}

\* the ways a reply wraps a JSON object
Wrap(kind, obj) ==
  CASE kind = "plain"     -> obj
    [] kind = "fence_tag" -> <<FENCE, "json", NL>> \o obj \o <<NL, FENCE>>
    [] kind = "fence"     -> <<FENCE, NL>> \o obj \o <<NL, FENCE, NL>>
    [] kind = "fence_raw" -> <<FENCE>> \o obj \o <<FENCE>>
    [] kind = "prose"     -> <<"Here", SP, "it", SP, "is", COLON, NL>> \o obj
    [] OTHER              -> <<SP, NL>> \o obj \o <<NL>>

WrapKinds == {"plain", "fence_tag", "fence", "fence_raw", "prose", "space"}

\* replies that are not a JSON object: other JSON shapes, malformed JSON,
\* key lines and prose
OtherReplies ==
  {<<LBRACK, "5", RBRACK>>, <<DQ, "Great", SP, "work", DQ>>, <<"7">>,
   <<"null">>, <<SP, NL>>,
   <<"Great", SP, "work", COMMA, SP, "keep", SP, "practicing", "!">>,
   <<LBRACE, DQ, "feedback", DQ, COLON, SP, DQ, "Good">>,
   <<LBRACE, DQ, "feedback", DQ, COLON, SP, "Good", RBRACE>>,
   <<LBRACE, DQ, "feedback", DQ, COLON, SP, DQ, "Good", DQ, COMMA, RBRACE>>,
   <<"feedback", COLON, SP, "Good", NL, "next_question", COLON, SP, "Q2">>,
   <<"Feedback", SP, "=", SP, DQ, "Good", DQ, NL, "nextquestion", "-", DQ, "Q2",
     DQ, NL>>,
   <<"next_question", COLON, SP, "Q2">>,
   <<"feedback", COLON, SP, NL, "Try", SP, "again">>,
   <<"feedback", COLON, SP, "Good", SP, LBRACE, "oops", RBRACE, NL,
     "next_question", COLON, SP, "Q2">>,
   <<FENCE, "json", NL, "feedback", COLON, SP, "Good", NL, FENCE>>,
   <<SQ, "Good", SQ>>}

Replies ==
  {Wrap(k, o) : k \in WrapKinds, o \in ObjectReplies} \cup OtherReplies

\* successful answers of the grading service that carry no reply text
OddBodies ==
  {<<"not", SP, "json">>, <<LBRACE, RBRACE>>, <<LBRACK, RBRACK>>, <<"7">>,
   <<DQ, "content", DQ>>,
   <<LBRACE, DQ, "content", DQ, COLON, LBRACK, RBRACK, RBRACE>>,
   <<LBRACE, DQ, "content", DQ, COLON, LBRACK, "5", RBRACK, RBRACE>>,
   <<LBRACE, DQ, "content", DQ, COLON, LBRACK, LBRACE, DQ, "text", DQ, COLON,
     "5", RBRACE, RBRACK, RBRACE>>,
   Envelope(<<>>)}

ErrorStatuses == {201, 401, 429, 500, 529}

ErrorTexts == {<<>>, <<LBRACE, DQ, "error", DQ, COLON, DQ, "overloaded", DQ, RBRACE>>}

GradingAnswers ==
  {GradingFailure}
  \cup {GradingAnswer(st, b) : st \in ErrorStatuses, b \in ErrorTexts}
  \cup {GradingAnswer(HTTP_OK, Envelope(r)) : r \in Replies}
  \cup {GradingAnswer(HTTP_OK, b) : b \in OddBodies}

SpeechAnswers ==
  {SpeechFailure}
  \cup {SpeechAnswer(st, <<>>) : st \in {401, 500}}
  \cup {SpeechAnswer(HTTP_OK, c) : c \in AudioContents}

\* a request object with the given members; Absent leaves a member out
Absent == [t |-> "absent", s |-> <<>>, m |-> <<>>]

RequestDict(q, a, np) ==
  PyDict((IF q = Absent THEN <<>> ELSE <<Member(<<"question">>, q)>>)
         \o (IF a = Absent THEN <<>> ELSE <<Member(<<"user_answer">>, a)>>)
         \o (IF np = Absent THEN <<>>
             ELSE <<Member(<<"next_preposition">>, np)>>))

RequestBodies ==
  {NoJsonBody, MalformedBody}
  \cup {JsonBody(v) : v \in {PyNone, PyList(<<>>),
                             PyList(<<Member(<<>>, PyNum(<<"5">>))>>),
                             PyStr(<<"hello">>), PyNum(<<"0">>)}}
  \cup {JsonBody(RequestDict(q, a, np)) :
          q \in {Absent, EmptyStr, PyStr(<<"Q1">>)},
          a \in {Absent, EmptyStr, PyStr(<<"A1">>)},
          np \in {Absent, PyStr(<<SP, "in", SP>>), PyNum(<<"5">>)}}
  \cup {JsonBody(RequestDict(PyNum(<<"5">>), PyStr(<<"A1">>), Absent)),
        JsonBody(RequestDict(PyStr(<<"Q1">>), PyNum(<<"0">>), Absent))}

\* ------------------------------------------------------------------- state
VARIABLES
  CLAUDE_API_KEY,   \* the grading credential, read once at start
  OPENAI_API_KEY,   \* the speech credential, read once at start
  pc,               \* "idle", "grading", "speech" or "done"
  endpoint,         \* the handler serving the request
  request,          \* the body of the request
  prompt,           \* the prompt sent to the grading service
  grading,          \* the grading service's answer
  reply,            \* response_text / text: the reply text taken from it
  parsed,           \* feedback, next_question and combined_text
  speech,           \* the speech service's answer
  gradingCalls,     \* calls of the grading service made for the request
  speechCalls,      \* calls of the speech service made for the request
  status,           \* HTTP status of the response, 0 before it is sent
  response,         \* JSON body of the response
  served            \* requests answered so far

vars ==
  <<CLAUDE_API_KEY, OPENAI_API_KEY, pc, endpoint, request, prompt, grading,
    reply, parsed, speech, gradingCalls, speechCalls, status, response,
    served>>

NoGrading == [raises |-> FALSE, status |-> 0, body |-> <<>>]

NoSpeech == [raises |-> FALSE, status |-> 0, content |-> <<>>]

Idle ==
  /\ pc = "idle"
  /\ endpoint = ""
  /\ request = NoJsonBody
  /\ prompt = <<>>
  /\ grading = NoGrading
  /\ reply = PyNone
  /\ parsed = Raised("")
  /\ speech = NoSpeech
  /\ gradingCalls = 0
  /\ speechCalls = 0
  /\ status = 0
  /\ response = NoResponse

Init ==
  /\ CLAUDE_API_KEY \in KeyValues
  /\ OPENAI_API_KEY \in KeyValues
  /\ served = 0
  /\ Idle

\* a handler runs up to its grading call, or answers before it
Begin(e, req, next) ==
  /\ pc = "idle"
  /\ served < MaxRequests
  /\ endpoint' = e
  /\ request' = req
  /\ IF next.kind = "call"
     THEN /\ pc' = "grading"
          /\ prompt' = next.prompt
          /\ gradingCalls' = gradingCalls + 1
          /\ UNCHANGED <<status, response>>
     ELSE /\ pc' = "done"
          /\ status' = next.status
          /\ response' = next.body
          /\ UNCHANGED <<prompt, gradingCalls>>
  /\ UNCHANGED <<CLAUDE_API_KEY, OPENAI_API_KEY, grading, reply, parsed,
                 speech, speechCalls, served>>

CheckAnswerRequest ==
  \E req \in RequestBodies, raises415 \in BOOLEAN :
    Begin("check_answer", req,
          CheckAnswerBegin(CLAUDE_API_KEY, OPENAI_API_KEY, req, raises415))

CheckPrepositionRequest ==
  \E req \in RequestBodies, raises415 \in BOOLEAN :
    Begin("check_preposition", req,
          CheckPrepositionBegin(CLAUDE_API_KEY, OPENAI_API_KEY, req,
                                raises415))

\* a handler runs from the grading service's answer up to its speech call,
\* or answers before it
Graded(e, answer, next) ==
  /\ pc = "grading"
  /\ endpoint = e
  /\ grading' = answer
  /\ reply' = next.text
  /\ IF next.kind = "speech" /\ Truthy(OPENAI_API_KEY)
     THEN /\ pc' = "speech"
          /\ parsed' = next.parsed
          /\ speechCalls' = speechCalls + 1
          /\ UNCHANGED <<status, response>>
     ELSE IF next.kind = "speech"
     THEN \* text_to_speech_openai raises before it posts
          /\ pc' = "done"
          /\ parsed' = next.parsed
          /\ status' = HTTP_OK
          /\ response' = ResultBody(next.parsed.feedback,
                                    next.parsed.next_question,
                                    next.parsed.combined_text, PyNone)
          /\ UNCHANGED speechCalls
     ELSE /\ pc' = "done"
          /\ status' = next.status
          /\ response' = next.body
          /\ UNCHANGED <<parsed, speechCalls>>
  /\ UNCHANGED <<CLAUDE_API_KEY, OPENAI_API_KEY, endpoint, request, prompt,
                 speech, gradingCalls, served>>

CheckAnswerGradingReturns ==
  \E answer \in GradingAnswers :
    Graded("check_answer", answer, CheckAnswerGraded(answer))

CheckPrepositionGradingReturns ==
  \E answer \in GradingAnswers :
    Graded("check_preposition", answer, CheckPrepositionGraded(answer))

\* lines 256-267 and 375-385: the speech call returns or raises, and the
\* handler answers
SpeechReturns ==
  \E answer \in SpeechAnswers :
    /\ pc = "speech"
    /\ speech' = answer
    /\ pc' = "done"
    /\ status' = HTTP_OK
    /\ response' =
         ResultBody(parsed.feedback, parsed.next_question,
                    parsed.combined_text,
                    text_to_speech_openai(OPENAI_API_KEY, answer).audio)
    /\ UNCHANGED <<CLAUDE_API_KEY, OPENAI_API_KEY, endpoint, request, prompt,
                   grading, reply, parsed, gradingCalls, speechCalls, served>>

\* the response is sent; the next request starts from a clean slate
Deliver ==
  /\ pc = "done"
  /\ served' = served + 1
  /\ pc' = "idle"
  /\ endpoint' = ""
  /\ request' = NoJsonBody
  /\ prompt' = <<>>
  /\ grading' = NoGrading
  /\ reply' = PyNone
  /\ parsed' = Raised("")
  /\ speech' = NoSpeech
  /\ gradingCalls' = 0
  /\ speechCalls' = 0
  /\ status' = 0
  /\ response' = NoResponse
  /\ UNCHANGED <<CLAUDE_API_KEY, OPENAI_API_KEY>>

Next ==
  \/ CheckAnswerRequest
  \/ CheckPrepositionRequest
  \/ CheckAnswerGradingReturns
  \/ CheckPrepositionGradingReturns
  \/ SpeechReturns
  \/ Deliver

Spec == Init /\ [][Next]_vars

\* ================================================================ properties
Done == pc = "done"

\* the grading service answered 200 with a non-empty reply text
ReplyGiven ==
  /\ pc \in {"speech", "done"}
  /\ gradingCalls = 1
  /\ ~grading.raises
  /\ grading.status = HTTP_OK
  /\ reply.t = "str"
  /\ Len(reply.s) > 0

\* the request is a JSON object whose member `key` is a non-empty string
HasText(req, key) ==
  /\ req.kind = "json"
  /\ req.v.t = "dict"
  /\ DictGet(req.v, key, PyNone).t = "str"
  /\ Len(DictGet(req.v, key, PyNone).s) > 0

\* the request lacks `key`, or carries it as null or as the empty string
LacksText(req, key) ==
  \/ req.kind # "json"
  \/ req.v.t # "dict"
  \/ DictGet(req.v, key, PyNone) \in {PyNone, EmptyStr}

ValidRequest(req) ==
  /\ HasText(req, <<"question">>)
  /\ HasText(req, <<"user_answer">>)
  /\ DictGet(req.v, <<"next_preposition">>, EmptyStr).t = "str"

IsEmptyValue(v) == v \in {EmptyStr, PyNone}

\* C1: in every 200 response of a grading endpoint, combined_text is the
\* returned text when the returned next_question is empty, and otherwise the
\* text followed by ". Next question: " and the next_question.
C1_CombinedText ==
  (Done /\ status = HTTP_OK) =>
    response.combined_text =
      IF IsEmptyValue(response.next_question) THEN response.text
      ELSE PyStr(PyToStr(response.text) \o NextQuestionSep
                 \o PyToStr(response.next_question))

\* C2: when the speech call made after a successful grading fails (it raises,
\* or the speech service answers with a status other than 200), the handler
\* answers 200 with the parsed feedback, next_question and combined_text
\* unchanged and audio_base64 null.
C2_SpeechFailureNonFatal ==
  [][(pc = "speech" /\ pc' = "done" /\ (speech'.raises \/ speech'.status # HTTP_OK))
     => /\ status' = HTTP_OK
        /\ response'.keys = {"text", "next_question", "combined_text",
                             "audio_base64"}
        /\ response'.text = parsed.feedback
        /\ response'.next_question = parsed.next_question
        /\ response'.combined_text = parsed.combined_text
        /\ response'.audio_base64 = PyNone]_vars

\* a grading request answered 200 without audio after the speech service
\* answered 500
C2_Witness ==
  /\ Done
  /\ speechCalls = 1
  /\ speech.status = 500
  /\ status = HTTP_OK
  /\ response.audio_base64 = PyNone
  /\ Len(response.text.s) > 0

\* C3 as stated: with the grading credential set and the speech credential
\* missing, a valid request is not failed for lack of the speech credential.
C3_SpeechKeyAbsenceNonFatal ==
  (Done /\ Truthy(CLAUDE_API_KEY) /\ ~Truthy(OPENAI_API_KEY)
   /\ ValidRequest(request))
    => status # SERVICE_UNAVAILABLE

\* C3 amended: with the grading credential set and the speech credential
\* missing, each grading endpoint answers every request with 503 and an
\* `error` key, and calls neither the grading nor the speech service.
C3_SpeechKeyAbsenceIs503 ==
  (Truthy(CLAUDE_API_KEY) /\ ~Truthy(OPENAI_API_KEY)) =>
    /\ gradingCalls = 0
    /\ speechCalls = 0
    /\ pc \in {"idle", "done"}
    /\ Done => (status = SERVICE_UNAVAILABLE /\ "error" \in response.keys)

C3_Witness ==
  /\ Done
  /\ Truthy(CLAUDE_API_KEY)
  /\ ~Truthy(OPENAI_API_KEY)
  /\ ValidRequest(request)
  /\ status = SERVICE_UNAVAILABLE

\* C4: with the grading credential missing, each grading endpoint answers
\* every request body with 503 and an `error` key, and neither the grading
\* nor the speech service is ever called.
C4_MissingGradingKeyIs503 ==
  ~Truthy(CLAUDE_API_KEY) =>
    /\ gradingCalls = 0
    /\ speechCalls = 0
    /\ pc \in {"idle", "done"}
    /\ Done => (status = SERVICE_UNAVAILABLE /\ "error" \in response.keys)

\* a valid request answered 503 although the speech credential is set
C4_Witness ==
  /\ Done
  /\ ~Truthy(CLAUDE_API_KEY)
  /\ Truthy(OPENAI_API_KEY)
  /\ ValidRequest(request)
  /\ status = SERVICE_UNAVAILABLE

\* C5: with both credentials set, a request whose question or user_answer is
\* missing or empty (a missing or empty JSON body included) ends in 400,
\* and no service is called while it is handled.
C5_InvalidInputIs400 ==
  (Truthy(CLAUDE_API_KEY) /\ Truthy(OPENAI_API_KEY) /\ pc # "idle"
   /\ (LacksText(request, <<"question">>)
       \/ LacksText(request, <<"user_answer">>)))
    => /\ pc = "done"
       /\ status = BAD_REQUEST
       /\ gradingCalls = 0
       /\ speechCalls = 0

NonSuccess(st) == st < 200 \/ st > 299

\* C6: when the grading service answers with a non-success status, the
\* handler answers with that status and the upstream body in `details`,
\* does not call the speech service, and has called the grading service
\* exactly once.
C6_UpstreamErrorPropagated ==
  /\ gradingCalls <= 1
  /\ (pc \in {"speech", "done"} /\ gradingCalls = 1 /\ ~grading.raises
      /\ NonSuccess(grading.status))
       => /\ pc = "done"
          /\ status = grading.status
          /\ response.keys = {"error", "details"}
          /\ response.details = PyStr(grading.body)
          /\ speechCalls = 0

C6_Witness ==
  /\ Done
  /\ endpoint = "check_answer"
  /\ grading.status = 429
  /\ Len(grading.body) > 0
  /\ status = 429
  /\ response.details = PyStr(grading.body)

\* no parsing strategy of section 4.3 applies to the text
Unparseable(text) ==
  LET c == CleanReply(text)
  IN  /\ ~json_loads(c).ok
      /\ ~BraceSearch(c).ok
      /\ ~KeyLineSearch(c, 1, FeedbackKeys).ok
      /\ ~KeyLineSearch(c, 1, NextQuestionKeys).ok

\* C7: parsing the reply never produces an error: every non-empty reply text
\* received with status 200 ends in a 200 response, and a reply that no
\* strategy can parse becomes the feedback (as it is, or cleaned of fences
\* and surrounding quotes) with an empty next_question.
C7_ParsingNeverFails ==
  (Done /\ ReplyGiven) =>
    /\ status = HTTP_OK
    /\ Unparseable(reply.s) =>
         /\ response.text.t = "str"
         /\ response.text.s \in {reply.s, CleanReply(reply.s),
                                 Sanitize(CleanReply(reply.s))}
         /\ response.next_question = EmptyStr

\* C8: a 200 response to a non-empty reply text has a non-empty `text`.
C8_FeedbackNonEmpty ==
  (Done /\ ReplyGiven /\ status = HTTP_OK) => ~IsEmptyValue(response.text)

FenceKinds == {"fence_tag", "fence", "fence_raw"}

\* what the statements of an endpoint make of a reply text
ParseOf(e, text) ==
  IF e = "check_answer" THEN AnswerParse(text) ELSE PrepositionParse(text)

\* C9: in both endpoints a JSON object wrapped in code fences is parsed
\* exactly as the unwrapped object is.
C9_FencedAsUnwrapped ==
  \A k \in FenceKinds, o \in ObjectReplies :
    (ReplyGiven /\ reply = PyStr(Wrap(k, o))) =>
      (~ParseOf(endpoint, o).raised => parsed = ParseOf(endpoint, o))

\* C10: when the direct JSON parse fails and the {...} substring of the
\* reply fails to parse too, the key lines are still looked for, and what
\* they give is the feedback and the next_question.
C10_KeyLinesAfterBraceFailure ==
  (ReplyGiven /\ endpoint = "check_preposition") =>
    LET c  == CleanReply(reply.s)
        fb == KeyLineSearch(c, 1, FeedbackKeys)
        nq == KeyLineSearch(c, 1, NextQuestionKeys)
    IN  (~json_loads(c).ok /\ BraceSearch(c).ok
         /\ ~json_loads(BraceSearch(c).g).ok /\ fb.ok)
          => /\ parsed.feedback = PyStr(Sanitize(fb.g))
             /\ parsed.next_question
                  = PyStr(Sanitize(IF nq.ok THEN nq.g ELSE <<>>))

====
